---- MODULE Spec2Model ----
(***************************************************************************)
(* Model of the azure-nodejs-api Express application:                      *)
(*   - DatabaseService (src/src/databaseService.js) over a PostgreSQL      *)
(*     table "tasks" (id SERIAL PRIMARY KEY, title VARCHAR(255) NOT NULL,  *)
(*     description TEXT, completed BOOLEAN DEFAULT false, timestamps);     *)
(*   - the /api/db/tasks handlers and /api/health of the database-enabled  *)
(*     application (src/unnamed/part_002);                                 *)
(*   - the upload / files handlers and the in-memory /api/tasks handlers   *)
(*     of src/src/app.js with StorageService (src/src/storageService.js).  *)
(* JavaScript values are records tagged with their type, so that           *)
(* undefined, null, strings and booleans stay distinct.                    *)
(***************************************************************************)
EXTENDS Integers, Sequences, FiniteSets, TLC

VARIABLES
    env,          \* process.env at startup: the credentials and MAX_TASKS
    dbBackend,    \* what DATABASE_URL points at: "valid" or "unreachable"
    blobBackend,  \* the storage account's container: "valid" or "unreachable"
    dbService,    \* DatabaseService singleton: [isConfigured, hasPool]
    storage,      \* StorageService singleton: [isConfigured]
    defaultClient,\* appInsights.defaultClient is set (setup(...).start() ran)
    initPending,  \* the initializeTables() promise of startup is not settled
    tableExists,  \* the tasks table exists in the database
    tasks,        \* rows of the tasks table
    seq,          \* last value of the SERIAL sequence tasks_id_seq
    issued,       \* history: ids given to inserted rows, in order
    gone,         \* history: ids whose delete was answered 200 since the last insert
    now,          \* the clock (CURRENT_TIMESTAMP, Date.now())
    blobs,        \* objects of the container, by blob name
    alive,        \* the node process is running
    req,          \* the request handled last
    calls,        \* service and SDK calls made while handling it, in order
    resp,         \* the response written for it
    inflight      \* requests handled concurrently, in order of arrival, each
                  \* with the position of its handler and its response

vars == <<env, dbBackend, blobBackend, dbService, storage, defaultClient, initPending,
          tableExists, tasks, seq, issued, gone, now, blobs, alive, req, calls, resp,
          inflight>>

----------------------------------------------------------------------------
(* Bounds of the model *)

\* largest value the id sequence is driven to
MaxSeq == 2
\* largest clock value
MaxClock == 1
\* longest MAX_TASKS text and longest /api/tasks/:id text
MaxTextLen == 2
\* most requests handled concurrently
MaxInflight == 3

----------------------------------------------------------------------------
(* JavaScript values *)

JsUndef == [t |-> "undefined"]
JsNull == [t |-> "null"]
JsStr(s) == [t |-> "string", v |-> s]
JsBool(b) == [t |-> "boolean", v |-> b]

\* ToBoolean: undefined, null, '' and false are falsy
Truthy(x) ==
    CASE x.t = "undefined" -> FALSE
      [] x.t = "null" -> FALSE
      [] x.t = "string" -> x.v # ""
      [] x.t = "boolean" -> x.v

\* a || b
JsOr(a, b) == IF Truthy(a) THEN a ELSE b

----------------------------------------------------------------------------
(* PostgreSQL: the tasks table *)

\* title VARCHAR(255)
VarcharLimit == 255

Digits == <<"0", "1", "2", "3", "4", "5", "6", "7", "8", "9">>

IsDigit(c) == \E d \in 1..10 : Digits[d] = c

DigitVal(c) == (CHOOSE d \in 1..10 : Digits[d] = c) - 1

RECURSIVE DigitsValue(_)
DigitsValue(s) ==
    IF s = <<>> THEN 0
    ELSE 10 * DigitsValue(SubSeq(s, 1, Len(s) - 1)) + DigitVal(s[Len(s)])

\* text accepted by the integer input function: an optional sign and digits
Int4Valid(s) ==
    LET body == IF s # <<>> /\ s[1] = "-" THEN Tail(s) ELSE s
    IN  body # <<>> /\ \A i \in 1..Len(body) : IsDigit(body[i])

Int4In(s) ==
    IF s[1] = "-" THEN 0 - DigitsValue(Tail(s)) ELSE DigitsValue(s)

\* the backend answers queries on the tasks table
Serving == dbBackend = "valid" /\ tableExists

\* result.rows[0]
FirstRow(rows) == IF rows = {} THEN JsUndef ELSE CHOOSE r \in rows : TRUE

RECURSIVE ToText(_)
\* the text form of a non-negative integer, as the driver sends a parameter
ToText(n) ==
    IF n < 10 THEN <<Digits[n + 1]>>
    ELSE ToText(n \div 10) \o <<Digits[(n % 10) + 1]>>

----------------------------------------------------------------------------
(* DatabaseService: each method returns the value it resolves to (row), or  *)
(* throws (ok = FALSE, msg), together with the table and sequence it leaves *)

Resolve(row, tbl, sq) ==
    [ok |-> TRUE, msg |-> "", row |-> row, tasks |-> tbl, seq |-> sq, blobs |-> blobs]

Throw(msg, sq) ==
    [ok |-> FALSE, msg |-> msg, row |-> JsUndef, tasks |-> tasks, seq |-> sq,
     blobs |-> blobs]

\* what this.pool.query rejects with before the statement runs, or "" 
QueryError(id) ==
    IF dbBackend # "valid" THEN "connect ECONNREFUSED"
    ELSE IF ~tableExists THEN "relation \"tasks\" does not exist"
    ELSE IF ~Int4Valid(id) THEN "invalid input syntax for type integer"
    ELSE ""

\* a value bound to the title column: VARCHAR(255), whose length coercion of
\* the bound parameter fails the statement before any row is touched, and
\* NOT NULL, checked on each row written
TitleError(title) ==
    IF title.t \in {"undefined", "null"} THEN "null value in column \"title\""
    ELSE IF Len(title.v) > VarcharLimit THEN "value too long for type character varying(255)"
    ELSE ""

\* SELECT * FROM tasks WHERE id = $1
getTaskById(id) ==
    IF ~dbService.isConfigured THEN Throw("Database not configured", seq)
    ELSE IF QueryError(id) # "" THEN Throw(QueryError(id), seq)
    ELSE Resolve(FirstRow({r \in tasks : r.id = Int4In(id)}), tasks, seq)

\* an id computed from the rows present instead of drawn from the sequence
NextVal_FromRows(sq) == Cardinality(tasks) + 1

\* nextval('tasks_id_seq'): the column default of id SERIAL
NextVal(sq) == sq + 1

\* the insert without the default of the description parameter
createTask_NoDefault(title, description) ==
    LET id == NextVal(seq)
        row == [id |-> id, title |-> title,
                description |-> IF description = JsUndef THEN JsNull ELSE description,
                completed |-> JsBool(FALSE),
                created_at |-> now, updated_at |-> now]
    IN  IF ~dbService.isConfigured THEN Throw("Database not configured", seq)
        ELSE IF QueryError(<<"0">>) # "" THEN Throw(QueryError(<<"0">>), seq)
        ELSE IF TitleError(title) # ""
             THEN Throw(TitleError(title), IF title.t = "string" THEN seq ELSE id)
        ELSE IF \E r \in tasks : r.id = id
             THEN Throw("duplicate key value violates unique constraint", id)
        ELSE Resolve(row, tasks \cup {row}, id)

\* INSERT INTO tasks (title, description) VALUES ($1, $2) RETURNING *
createTask(title, description) ==
    LET d == IF description = JsUndef THEN JsStr("") ELSE description
        id == NextVal(seq)
        row == [id |-> id, title |-> title,
                description |-> IF d = JsUndef THEN JsNull ELSE d,
                completed |-> JsBool(FALSE),
                created_at |-> now, updated_at |-> now]
    IN  IF ~dbService.isConfigured THEN Throw("Database not configured", seq)
        ELSE IF QueryError(<<"0">>) # "" THEN Throw(QueryError(<<"0">>), seq)
        ELSE IF TitleError(title) # ""
             THEN Throw(TitleError(title), IF title.t = "string" THEN seq ELSE id)
        ELSE IF \E r \in tasks : r.id = id
             THEN Throw("duplicate key value violates unique constraint", id)
        ELSE Resolve(row, tasks \cup {row}, id)

\* an update that inserts the row when no row has the id
updateTask_Upsert(id, title, description, completed) ==
    LET hit == {r \in tasks : r.id = Int4In(id)}
        base == IF hit # {} THEN hit
                ELSE {[id |-> Int4In(id), title |-> title, description |-> description,
                       completed |-> completed, created_at |-> now, updated_at |-> now]}
        new == {[r EXCEPT !.title = title, !.description = description,
                          !.completed = completed, !.updated_at = now] : r \in base}
    IN  IF ~dbService.isConfigured THEN Throw("Database not configured", seq)
        ELSE IF QueryError(id) # "" THEN Throw(QueryError(id), seq)
        ELSE IF TitleError(title) # "" THEN Throw(TitleError(title), seq)
        ELSE Resolve(FirstRow(new), (tasks \ hit) \cup new, seq)

\* an update that keeps the stored description when the new one is empty
updateTask_Merges(id, title, description, completed) ==
    LET hit == {r \in tasks : r.id = Int4In(id)}
        new == {[r EXCEPT !.title = title,
                          !.description = IF description \in {JsUndef, JsStr("")}
                                          THEN r.description ELSE description,
                          !.completed = IF completed = JsUndef THEN JsNull ELSE completed,
                          !.updated_at = now] : r \in hit}
    IN  IF ~dbService.isConfigured THEN Throw("Database not configured", seq)
        ELSE IF QueryError(id) # "" THEN Throw(QueryError(id), seq)
        ELSE IF TitleError(title) # "" /\ (hit # {} \/ title.t = "string")
             THEN Throw(TitleError(title), seq)
        ELSE Resolve(FirstRow(new), (tasks \ hit) \cup new, seq)

\* UPDATE tasks SET title, description, completed, updated_at = CURRENT_TIMESTAMP
\* WHERE id = $4 RETURNING *
updateTask(id, title, description, completed) ==
    LET hit == {r \in tasks : r.id = Int4In(id)}
        new == {[r EXCEPT !.title = title,
                          !.description = IF description = JsUndef THEN JsNull ELSE description,
                          !.completed = IF completed = JsUndef THEN JsNull ELSE completed,
                          !.updated_at = now] : r \in hit}
    IN  IF ~dbService.isConfigured THEN Throw("Database not configured", seq)
        ELSE IF QueryError(id) # "" THEN Throw(QueryError(id), seq)
        ELSE IF TitleError(title) # "" /\ (hit # {} \/ title.t = "string")
             THEN Throw(TitleError(title), seq)
        ELSE Resolve(FirstRow(new), (tasks \ hit) \cup new, seq)

\* a delete that returns the row and leaves it in the table
deleteTask_KeepsRow(id) ==
    LET hit == {r \in tasks : r.id = Int4In(id)}
    IN  IF ~dbService.isConfigured THEN Throw("Database not configured", seq)
        ELSE IF QueryError(id) # "" THEN Throw(QueryError(id), seq)
        ELSE Resolve(FirstRow(hit), tasks, seq)

\* DELETE FROM tasks WHERE id = $1 RETURNING *
deleteTask(id) ==
    LET hit == {r \in tasks : r.id = Int4In(id)}
    IN  IF ~dbService.isConfigured THEN Throw("Database not configured", seq)
        ELSE IF QueryError(id) # "" THEN Throw(QueryError(id), seq)
        ELSE Resolve(FirstRow(hit), tasks \ hit, seq)

\* the orders SELECT * FROM tasks ORDER BY created_at DESC may return
RowOrders(tbl) ==
    {s \in [1..Cardinality(tbl) -> tbl] :
        /\ \A i, j \in 1..Cardinality(tbl) : i # j => s[i] # s[j]
        /\ \A i, j \in 1..Cardinality(tbl) : i < j => s[i].created_at >= s[j].created_at}

getAllTasks(order) ==
    IF ~dbService.isConfigured THEN Throw("Database not configured", seq)
    ELSE IF QueryError(<<"0">>) # "" THEN Throw(QueryError(<<"0">>), seq)
    ELSE Resolve(order, tasks, seq)

----------------------------------------------------------------------------
(* Telemetry: calls on appInsights.defaultClient.  fail is the set of SDK   *)
(* methods that throw while the current request is handled.                 *)

TelemetryMethods == {"trackEvent", "trackMetric", "trackException"}

\* if (appInsights && appInsights.defaultClient) client.<method>(...) throws
TrackThrows(method, fail) == defaultClient /\ method \in fail

\* the call made, if any
TrackCall(method) == IF defaultClient THEN <<method>> ELSE <<>>

----------------------------------------------------------------------------
(* Handler outcomes: the response written, the store left behind, the calls *)
(* made, and whether an error escaped the handler before it wrote one.      *)

Cur == [tasks |-> tasks, seq |-> seq, blobs |-> blobs]

Json(status, body, st, made) ==
    [status |-> status, type |-> "json", body |-> body,
     tasks |-> st.tasks, seq |-> st.seq, blobs |-> st.blobs, calls |-> made,
     escaped |-> "no"]

\* how: "thrown" out of a synchronous handler, "rejected" for an async one
Escaped(st, made, how) ==
    [status |-> 0, type |-> "none", body |-> [error |-> ""],
     tasks |-> st.tasks, seq |-> st.seq, blobs |-> st.blobs, calls |-> made,
     escaped |-> how]

\* catch (error) { trackException(error); res.status(500).json({error, message}) }
CatchTracked(label, msg, st, made, fail) ==
    IF TrackThrows("trackException", fail)
    THEN Escaped(st, made \o TrackCall("trackException"), "rejected")
    ELSE Json(500, [error |-> label, message |-> msg], st,
              made \o TrackCall("trackException"))

\* catch (error) { res.status(500).json({error, message}) }
CatchPlain(label, msg, st, made) ==
    Json(500, [error |-> label, message |-> msg], st, made)

TelemetryError == "telemetry call failed"

\* app.get('/api/db/tasks')
GetDbTasks(order, fail) ==
    IF ~dbService.isConfigured
    THEN Json(503, [error |-> "Database not configured",
                    message |-> "DATABASE_URL environment variable is missing"],
              Cur, <<>>)
    ELSE LET r == getAllTasks(order)
             made == <<"getAllTasks">>
         IN  IF ~r.ok THEN CatchTracked("Failed to retrieve tasks", r.msg, r, made, fail)
             ELSE IF TrackThrows("trackEvent", fail)
                  THEN CatchTracked("Failed to retrieve tasks", TelemetryError, r,
                                    made \o TrackCall("trackEvent"), fail)
             ELSE Json(200, [success |-> TRUE, count |-> Len(r.row), tasks |-> r.row],
                       r, made \o TrackCall("trackEvent"))

\* app.get('/api/db/tasks/:id')
GetDbTaskById(id) ==
    IF ~dbService.isConfigured
    THEN Json(503, [error |-> "Database not configured"], Cur, <<>>)
    ELSE LET r == getTaskById(id)
             made == <<"getTaskById">>
         IN  IF ~r.ok THEN CatchPlain("Failed to retrieve task", r.msg, r, made)
             ELSE IF r.row = JsUndef
                  THEN Json(404, [error |-> "Task not found", id |-> id], r, made)
             ELSE Json(200, [success |-> TRUE, task |-> r.row], r, made)

\* app.post('/api/db/tasks')
PostDbTask(body, fail) ==
    IF ~dbService.isConfigured
    THEN Json(503, [error |-> "Database not configured"], Cur, <<>>)
    ELSE IF ~Truthy(body.title)
    THEN Json(400, [error |-> "Validation error", message |-> "Title is required"],
              Cur, <<>>)
    ELSE LET r == createTask(body.title, body.description)
             made == <<"createTask">>
         IN  IF ~r.ok THEN CatchTracked("Failed to create task", r.msg, r, made, fail)
             ELSE IF TrackThrows("trackEvent", fail)
                  THEN CatchTracked("Failed to create task", TelemetryError, r,
                                    made \o TrackCall("trackEvent"), fail)
             ELSE Json(201, [success |-> TRUE, message |-> "Task created successfully",
                             task |-> r.row],
                       r, made \o TrackCall("trackEvent"))

\* the update handler with the title check ahead of the configuration check
PutDbTask_ValidatesFirst(id, body, fail) ==
    IF ~Truthy(body.title)
    THEN Json(400, [error |-> "Validation error", message |-> "Title is required"],
              Cur, <<>>)
    ELSE IF ~dbService.isConfigured
    THEN Json(503, [error |-> "Database not configured"], Cur, <<>>)
    ELSE LET r == updateTask(id, body.title, JsOr(body.description, JsStr("")),
                             IF body.completed # JsUndef THEN body.completed
                             ELSE JsBool(FALSE))
         IN  IF ~r.ok THEN CatchPlain("Failed to update task", r.msg, r, <<"updateTask">>)
             ELSE IF r.row = JsUndef
                  THEN Json(404, [error |-> "Task not found", id |-> id], r, <<"updateTask">>)
             ELSE Json(200, [success |-> TRUE, message |-> "Task updated successfully",
                             task |-> r.row],
                       r, <<"updateTask">> \o TrackCall("trackEvent"))

\* the update handler without the title check
PutDbTask_NoTitleCheck(id, body, fail) ==
    IF ~dbService.isConfigured
    THEN Json(503, [error |-> "Database not configured"], Cur, <<>>)
    ELSE LET r == updateTask(id, body.title, JsOr(body.description, JsStr("")),
                             IF body.completed # JsUndef THEN body.completed
                             ELSE JsBool(FALSE))
             made == <<"updateTask">>
         IN  IF ~r.ok THEN CatchPlain("Failed to update task", r.msg, r, made)
             ELSE IF r.row = JsUndef
                  THEN Json(404, [error |-> "Task not found", id |-> id], r, made)
             ELSE Json(200, [success |-> TRUE, message |-> "Task updated successfully",
                             task |-> r.row],
                       r, made \o TrackCall("trackEvent"))

\* app.put('/api/db/tasks/:id')
PutDbTask(id, body, fail) ==
    IF ~dbService.isConfigured
    THEN Json(503, [error |-> "Database not configured"], Cur, <<>>)
    ELSE IF ~Truthy(body.title)
    THEN Json(400, [error |-> "Validation error", message |-> "Title is required"],
              Cur, <<>>)
    ELSE LET r == updateTask(id, body.title, JsOr(body.description, JsStr("")),
                             IF body.completed # JsUndef THEN body.completed
                             ELSE JsBool(FALSE))
             made == <<"updateTask">>
         IN  IF ~r.ok THEN CatchPlain("Failed to update task", r.msg, r, made)
             ELSE IF r.row = JsUndef
                  THEN Json(404, [error |-> "Task not found", id |-> id], r, made)
             ELSE IF TrackThrows("trackEvent", fail)
                  THEN CatchPlain("Failed to update task", TelemetryError, r,
                                  made \o TrackCall("trackEvent"))
             ELSE Json(200, [success |-> TRUE, message |-> "Task updated successfully",
                             task |-> r.row],
                       r, made \o TrackCall("trackEvent"))

\* app.delete('/api/db/tasks/:id')
DeleteDbTask(id, fail) ==
    IF ~dbService.isConfigured
    THEN Json(503, [error |-> "Database not configured"], Cur, <<>>)
    ELSE LET r == deleteTask(id)
             made == <<"deleteTask">>
         IN  IF ~r.ok THEN CatchPlain("Failed to delete task", r.msg, r, made)
             ELSE IF r.row = JsUndef
                  THEN Json(404, [error |-> "Task not found", id |-> id], r, made)
             ELSE IF TrackThrows("trackEvent", fail)
                  THEN CatchPlain("Failed to delete task", TelemetryError, r,
                                  made \o TrackCall("trackEvent"))
             ELSE Json(200, [success |-> TRUE, message |-> "Task deleted successfully",
                             task |-> r.row],
                       r, made \o TrackCall("trackEvent"))

----------------------------------------------------------------------------
(* Startup *)

\* DatabaseService.constructor: the pool is created without connecting
DatabaseServiceNew(url) == [isConfigured |-> url # "absent"]

\* a constructor whose catch leaves the service marked as configured
StorageServiceNew_CatchKeepsFlag(conn) == [isConfigured |-> conn # "absent"]

\* StorageService.constructor: BlobServiceClient.fromConnectionString throws
\* on a string it cannot parse, and the catch leaves the service unconfigured
StorageServiceNew(conn) == [isConfigured |-> conn = "valid"]

\* the telemetry setup module: setup(connectionString)...start() creates
\* defaultClient; loaded says whether the module is required at startup
AppInsightsSetup(conn, loaded) == loaded /\ conn # "absent"

\* an environment variable that is not set
Unset == [set |-> FALSE]

NoBody == [title |-> JsUndef, description |-> JsUndef, completed |-> JsUndef]

NoFile == [present |-> FALSE]

Request(ep, id, body, file, fail) ==
    [ep |-> ep, id |-> id, body |-> body, file |-> file, fail |-> fail]

\* no exchange is in progress
NoRequest == Request("", <<>>, NoBody, NoFile, {})

NoResponse == [status |-> 0, type |-> "none", body |-> [error |-> ""]]

Started(e, backend, container, loaded) ==
    /\ env = e
    /\ dbBackend = backend
    /\ blobBackend = container
    /\ dbService = DatabaseServiceNew(e.DATABASE_URL)
    /\ storage = StorageServiceNew(e.AZURE_STORAGE_CONNECTION_STRING)
    /\ defaultClient = AppInsightsSetup(e.APPLICATIONINSIGHTS_CONNECTION_STRING, loaded)
    /\ initPending = dbService.isConfigured
    /\ tableExists = FALSE
    /\ tasks = {}
    /\ seq = 0
    /\ issued = <<>>
    /\ gone = {}
    /\ now = 0
    /\ blobs = {}
    /\ alive = TRUE
    /\ req = NoRequest
    /\ calls = <<>>
    /\ resp = NoResponse
    /\ inflight = <<>>

\* the database application with any database and telemetry configuration;
\* the storage credential, which no database route reads, is left unset
Init ==
    \E url \in {"absent", "set"}, backend \in {"valid", "unreachable"},
       ai \in {"absent", "set"}, loaded \in BOOLEAN :
        /\ url = "absent" => backend = "unreachable"
        /\ Started([DATABASE_URL |-> url,
                    AZURE_STORAGE_CONNECTION_STRING |-> "absent",
                    APPLICATIONINSIGHTS_CONNECTION_STRING |-> ai,
                    MAX_TASKS |-> Unset],
                   backend, "unreachable", loaded)

----------------------------------------------------------------------------
(* Express: what becomes of an error that escapes a handler *)

\* the default error handler: err.status is unset, so 500 and an HTML page
ErrorPage == [status |-> 500, type |-> "html", body |-> [error |-> "Internal Server Error"]]

\* a rejected promise of an async handler: forwarded to the error handler by
\* a router that awaits handlers; otherwise unhandled, where the runtime
\* either terminates the process or only warns and the request never ends
RejectionFates == {"errorPage", "terminate", "hang"}

\* ids of the rows an outcome added, smallest first
RECURSIVE Ascending(_)
Ascending(S) ==
    IF S = {} THEN <<>>
    ELSE LET m == CHOOSE x \in S : \A y \in S : x <= y
         IN  <<m>> \o Ascending(S \ {m})

\* the server accepts a request
Idle == alive /\ req = NoRequest

Finish(r, o) ==
    /\ req' = r
    /\ calls' = o.calls
    /\ tasks' = o.tasks
    /\ seq' = o.seq
    /\ blobs' = o.blobs
    /\ LET before == {x.id : x \in tasks}
           after == {x.id : x \in o.tasks}
       IN  /\ issued' = issued \o Ascending(after \ before)
           /\ gone' = IF after \ before # {} THEN {}
                      ELSE IF r.ep = "DELETE /api/db/tasks/:id" /\ o.escaped = "no"
                              /\ o.status = 200
                           THEN gone \cup {o.body.task.id}
                      ELSE gone
    /\ \/ /\ o.escaped = "no"
          /\ resp' = [status |-> o.status, type |-> o.type, body |-> o.body]
          /\ alive' = alive
       \/ /\ o.escaped = "thrown"
          /\ resp' = ErrorPage
          /\ alive' = alive
       \/ /\ o.escaped = "rejected"
          /\ \E fate \in RejectionFates :
                /\ resp' = IF fate = "errorPage" THEN ErrorPage ELSE NoResponse
                /\ alive' = (fate # "terminate")

----------------------------------------------------------------------------
(* Request inputs *)

LongTitle ==
    LET a16 == "aaaaaaaaaaaaaaaa"
        a64 == a16 \o a16 \o a16 \o a16
    IN  a64 \o a64 \o a64 \o a64

TitleInputs == {JsUndef, JsStr(""), JsStr("a"), JsStr("b"), JsStr(LongTitle)}

DescriptionInputs == {JsUndef, JsStr(""), JsStr("d")}

CompletedInputs == {JsUndef, JsBool(TRUE), JsBool(FALSE)}

\* the description of an update body: a JSON null as well
PutDescriptionInputs == DescriptionInputs \cup {JsNull}

\* req.params.id: the ids the sequence can issue, one beyond, and a non-number
IdParams == {ToText(n) : n \in 1..(MaxSeq + 1)} \cup {<<"x">>}

\* the telemetry methods that may throw during a request that calls `used`
Failing(used) == IF defaultClient THEN SUBSET used ELSE {{}}

----------------------------------------------------------------------------
(* Actions of the database application *)

\* databaseService.initializeTables().catch(...): CREATE TABLE IF NOT EXISTS
InitializeTables ==
    /\ alive /\ initPending
    /\ initPending' = FALSE
    /\ tableExists' = (tableExists \/ dbBackend = "valid")
    /\ UNCHANGED <<env, dbBackend, blobBackend, dbService, storage, defaultClient,
                   tasks, seq, issued, gone, now, blobs, alive, req, calls, resp,
                   inflight>>

\* the exchange ends: the client has its response, or gives up waiting
Close ==
    /\ req # NoRequest
    /\ req' = NoRequest
    /\ resp' = NoResponse
    /\ calls' = <<>>
    /\ UNCHANGED <<env, dbBackend, blobBackend, dbService, storage, defaultClient,
                   initPending, tableExists, tasks, seq, issued, gone, now, blobs,
                   alive, inflight>>

Frame == UNCHANGED <<env, dbBackend, blobBackend, dbService, storage, defaultClient,
                     initPending, tableExists, now, inflight>>

ListDbTasks ==
    /\ Idle
    /\ \E order \in RowOrders(tasks), fail \in Failing({"trackEvent", "trackException"}) :
          Finish(Request("GET /api/db/tasks", <<>>, NoBody, NoFile, fail),
                 GetDbTasks(order, fail))
    /\ Frame

ReadDbTask ==
    /\ Idle
    /\ \E id \in IdParams :
          Finish(Request("GET /api/db/tasks/:id", id, NoBody, NoFile, {}),
                 GetDbTaskById(id))
    /\ Frame

CreateDbTask ==
    /\ Idle /\ seq < MaxSeq
    /\ \E title \in TitleInputs, description \in DescriptionInputs,
          fail \in Failing({"trackEvent", "trackException"}) :
          LET body == [title |-> title, description |-> description,
                       completed |-> JsUndef]
          IN  Finish(Request("POST /api/db/tasks", <<>>, body, NoFile, fail),
                     PostDbTask(body, fail))
    /\ Frame

UpdateDbTask ==
    /\ Idle
    /\ \E id \in IdParams, title \in TitleInputs, description \in PutDescriptionInputs,
          completed \in CompletedInputs, fail \in Failing({"trackEvent"}) :
          LET body == [title |-> title, description |-> description,
                       completed |-> completed]
          IN  Finish(Request("PUT /api/db/tasks/:id", id, body, NoFile, fail),
                     PutDbTask(id, body, fail))
    /\ Frame

RemoveDbTask ==
    /\ Idle
    /\ \E id \in IdParams, fail \in Failing({"trackEvent"}) :
          Finish(Request("DELETE /api/db/tasks/:id", id, NoBody, NoFile, fail),
                 DeleteDbTask(id, fail))
    /\ Frame

\* the database routes; every statement of a run reads the same
\* CURRENT_TIMESTAMP (the clock advances in SpecFiles)
Next ==
    \/ InitializeTables
    \/ Close
    \/ ListDbTasks
    \/ ReadDbTask
    \/ CreateDbTask
    \/ UpdateDbTask
    \/ RemoveDbTask

Spec == Init /\ [][Next]_vars

----------------------------------------------------------------------------
(* StorageService and the upload middleware *)

\* limits.fileSize of the multer configuration, in bytes
FileSizeLimit == 10485760

AllowedTypes ==
    {"image/jpeg", "image/png", "image/gif", "application/pdf", "text/plain"}

\* fileFilter: cb(null, true) for an allowed mimetype, cb(new Error(...)) otherwise
FileFilterAccepts(file) == file.mimetype \in AllowedTypes

\* upload.single('file'): "" when the handler is to run (with req.file set if a
\* file part came), otherwise the error the middleware passes to next(err)
UploadMiddlewareError(file) ==
    IF ~file.present THEN ""
    ELSE IF ~FileFilterAccepts(file) THEN "Invalid file type"
    ELSE IF file.size > FileSizeLimit THEN "File too large"
    ELSE ""

\* `${timestamp}-${file.originalname}`
BlobName(timestamp, originalname) == <<timestamp, originalname>>

\* blockBlobClient.uploadData(file.buffer, options): no access condition is
\* passed, so the upload leaves one blob under blobName, replacing a blob of
\* that name
PutBlob(container, blob) == {b \in container : b.name # blob.name} \cup {blob}

\* StorageService.uploadFile
uploadFile(file) ==
    LET blobName == BlobName(now, file.originalname)
        blob == [name |-> blobName, content |-> file.buffer,
                 contentType |-> file.mimetype, size |-> file.size, createdOn |-> now]
        result == [fileName |-> blobName, originalName |-> file.originalname,
                   url |-> <<"learning-azure", blobName>>, size |-> file.size,
                   contentType |-> file.mimetype, uploadedAt |-> now]
    IN  IF ~storage.isConfigured
        THEN [ok |-> FALSE, msg |-> "Storage service not configured", row |-> JsUndef,
              tasks |-> tasks, seq |-> seq, blobs |-> blobs]
        ELSE IF blobBackend # "valid"
        THEN [ok |-> FALSE, msg |-> "The specified container does not exist",
              row |-> JsUndef, tasks |-> tasks, seq |-> seq, blobs |-> blobs]
        ELSE [ok |-> TRUE, msg |-> "", row |-> result, tasks |-> tasks, seq |-> seq,
              blobs |-> PutBlob(blobs, blob)]

\* StorageService.listFiles
listFiles ==
    IF ~storage.isConfigured
    THEN [ok |-> FALSE, msg |-> "Storage service not configured", row |-> {},
          tasks |-> tasks, seq |-> seq, blobs |-> blobs]
    ELSE IF blobBackend # "valid"
    THEN [ok |-> FALSE, msg |-> "The specified container does not exist", row |-> {},
          tasks |-> tasks, seq |-> seq, blobs |-> blobs]
    ELSE [ok |-> TRUE, msg |-> "",
          row |-> {[name |-> b.name, size |-> b.size, contentType |-> b.contentType,
                    createdOn |-> b.createdOn, url |-> <<"learning-azure", b.name>>]
                   : b \in blobs},
          tasks |-> tasks, seq |-> seq, blobs |-> blobs]

\* app.post('/api/upload', upload.single('file'), handler)
PostUpload(file, fail) ==
    IF UploadMiddlewareError(file) # "" THEN Escaped(Cur, <<>>, "thrown")
    ELSE IF ~file.present
    THEN Json(400, [error |-> "No file uploaded"], Cur, <<>>)
    ELSE IF ~storage.isConfigured
    THEN Json(503, [error |-> "Storage service not configured",
                    message |-> "Azure Storage connection string is missing"],
              Cur, <<>>)
    ELSE LET r == uploadFile(file)
             made == <<"uploadFile">>
         IN  IF ~r.ok THEN CatchTracked("Failed to upload file", r.msg, r, made, fail)
             ELSE IF TrackThrows("trackEvent", fail)
                  THEN CatchTracked("Failed to upload file", TelemetryError, r,
                                    made \o TrackCall("trackEvent"), fail)
             ELSE Json(200, [success |-> TRUE, message |-> "File uploaded successfully",
                             file |-> r.row],
                       r, made \o TrackCall("trackEvent"))

\* app.get('/api/files')
GetFiles ==
    IF ~storage.isConfigured
    THEN Json(503, [error |-> "Storage service not configured"], Cur, <<>>)
    ELSE LET r == listFiles
             made == <<"listFiles">>
         IN  IF ~r.ok THEN CatchPlain("Failed to list files", r.msg, r, made)
             ELSE Json(200, [success |-> TRUE, count |-> Cardinality(r.row),
                             files |-> r.row], r, made)

Flag(on) == IF on THEN "enabled" ELSE "disabled"

\* app.get('/api/health'): a synchronous handler
GetHealth(fail) ==
    IF TrackThrows("trackEvent", fail)
    THEN Escaped(Cur, TrackCall("trackEvent"), "thrown")
    ELSE Json(200, [status |-> "healthy", timestamp |-> now,
                    monitoring |-> Flag(defaultClient),
                    storage |-> Flag(storage.isConfigured),
                    database |-> Flag(dbService.isConfigured)],
              Cur, TrackCall("trackEvent"))

\* app.get('/')
GetRoot ==
    Json(200, [message |-> "Azure Node.js API with PostgreSQL",
               monitoring |-> IF defaultClient THEN "Application Insights enabled"
                              ELSE "No monitoring",
               storage |-> IF storage.isConfigured THEN "Azure Blob Storage enabled"
                           ELSE "Storage not configured",
               database |-> IF dbService.isConfigured THEN "PostgreSQL enabled"
                            ELSE "Database not configured"],
         Cur, <<>>)

----------------------------------------------------------------------------
(* The application with any configuration: health, root, upload and files *)

\* the file part of an upload request
FileInputs ==
    {NoFile} \cup
    [present : {TRUE}, originalname : {"a.txt", "b.txt"},
     mimetype : {"text/plain", "application/zip"},
     size : {1, FileSizeLimit + 1}, buffer : {"p", "q"}]

InitFiles ==
    \E url \in {"absent", "set"}, conn \in {"absent", "malformed", "valid"},
       container \in {"valid", "unreachable"}, ai \in {"absent", "set"},
       loaded \in BOOLEAN :
        /\ conn # "valid" => container = "unreachable"
        /\ Started([DATABASE_URL |-> url,
                    AZURE_STORAGE_CONNECTION_STRING |-> conn,
                    APPLICATIONINSIGHTS_CONNECTION_STRING |-> ai,
                    MAX_TASKS |-> Unset],
                   "valid", container, loaded)

Tick ==
    /\ alive /\ now < MaxClock
    /\ now' = now + 1
    /\ UNCHANGED <<env, dbBackend, blobBackend, dbService, storage, defaultClient,
                   initPending, tableExists, tasks, seq, issued, gone, blobs, alive,
                   req, calls, resp, inflight>>

Upload ==
    /\ Idle
    /\ \E file \in FileInputs, fail \in Failing({"trackEvent", "trackException"}) :
          Finish(Request("POST /api/upload", <<>>, NoBody, file, fail),
                 PostUpload(file, fail))
    /\ Frame

ListFiles ==
    /\ Idle
    /\ Finish(Request("GET /api/files", <<>>, NoBody, NoFile, {}), GetFiles)
    /\ Frame

Health ==
    /\ Idle
    /\ \E fail \in Failing({"trackEvent"}) :
          Finish(Request("GET /api/health", <<>>, NoBody, NoFile, fail), GetHealth(fail))
    /\ Frame

Root ==
    /\ Idle
    /\ Finish(Request("GET /", <<>>, NoBody, NoFile, {}), GetRoot)
    /\ Frame

NextFiles ==
    \/ InitializeTables
    \/ Tick
    \/ Close
    \/ Upload
    \/ ListFiles
    \/ Health
    \/ Root

SpecFiles == InitFiles /\ [][NextFiles]_vars

----------------------------------------------------------------------------
(* The in-memory task endpoints of src/src/app.js *)

\* a JavaScript number: an integer, or NaN
Num(n) == [nan |-> FALSE, v |-> n]

NaN == [nan |-> TRUE, v |-> 0]

RECURSIVE DigitPrefix(_)
\* the longest prefix of digits
DigitPrefix(s) ==
    IF s = <<>> \/ ~IsDigit(s[1]) THEN <<>>
    ELSE <<s[1]>> \o DigitPrefix(Tail(s))

RECURSIVE RadixValue(_, _)
RadixValue(s, radix) ==
    IF s = <<>> THEN 0
    ELSE radix * RadixValue(SubSeq(s, 1, Len(s) - 1), radix) + DigitVal(s[Len(s)])

\* parseInt(text): an optional sign, an optional 0x prefix (radix 16), then
\* the digits up to the first other character; NaN when there is no digit;
\* parseInt(undefined) is NaN
ParseInt(text) ==
    IF ~text.set THEN NaN
    ELSE LET s == text.v
             negative == s # <<>> /\ s[1] = "-"
             unsigned == IF negative THEN Tail(s) ELSE s
             hex == Len(unsigned) >= 2 /\ unsigned[1] = "0" /\ unsigned[2] = "x"
             digits == DigitPrefix(IF hex THEN SubSeq(unsigned, 3, Len(unsigned))
                                   ELSE unsigned)
             value == RadixValue(digits, IF hex THEN 16 ELSE 10)
         IN  IF digits = <<>> THEN NaN
             ELSE Num(IF negative THEN 0 - value ELSE value)

\* x || dflt for a number x: NaN and 0 are falsy
NumOr(x, dflt) == IF x.nan \/ x.v = 0 THEN dflt ELSE x.v

\* the fallback of MAX_TASKS
DefaultMaxTasks == 10

\* const MAX_TASKS = parseInt(process.env.MAX_TASKS) || 10
MAX_TASKS == NumOr(ParseInt(env.MAX_TASKS), DefaultMaxTasks)

allTasks ==
    << [id |-> 1, title |-> "Learn Azure App Service", completed |-> TRUE],
       [id |-> 2, title |-> "Deploy to Azure", completed |-> TRUE],
       [id |-> 3, title |-> "Master DevOps", completed |-> FALSE],
       [id |-> 4, title |-> "Configure Environment Variables", completed |-> TRUE],
       [id |-> 5, title |-> "Add Application Insights", completed |-> TRUE] >>

Min(a, b) == IF a < b THEN a ELSE b

Max(a, b) == IF a > b THEN a ELSE b

\* Array.prototype.slice(0, end): a negative end counts from the end
SliceFromStart(arr, end) ==
    SubSeq(arr, 1, IF end < 0 THEN Max(Len(arr) + end, 0) ELSE Min(end, Len(arr)))

\* app.get('/api/tasks'): a synchronous handler
GetTasks(fail) ==
    LET listed == SliceFromStart(allTasks, MAX_TASKS)
    IN  IF TrackThrows("trackMetric", fail)
        THEN Escaped(Cur, TrackCall("trackMetric"), "thrown")
        ELSE IF TrackThrows("trackEvent", fail)
        THEN Escaped(Cur, TrackCall("trackMetric") \o TrackCall("trackEvent"), "thrown")
        ELSE Json(200, [tasks |-> listed, total |-> Len(listed),
                        maxAllowed |-> MAX_TASKS],
                  Cur, TrackCall("trackMetric") \o TrackCall("trackEvent"))

\* app.get('/api/tasks/:id'): a synchronous handler
GetTaskById(id, fail) ==
    LET taskId == ParseInt([set |-> TRUE, v |-> id])
    IN  IF TrackThrows("trackEvent", fail)
        THEN Escaped(Cur, TrackCall("trackEvent"), "thrown")
        ELSE Json(200, [id |-> taskId, title |-> <<"Task ", taskId>>,
                        completed |-> FALSE],
                  Cur, TrackCall("trackEvent"))

TextChars == {"-", "0", "2", "7", "x"}

\* the texts of at most MaxTextLen characters
Texts == UNION {[1..n -> TextChars] : n \in 0..MaxTextLen}

InitTasks ==
    \E max \in {Unset} \cup {[set |-> TRUE, v |-> t] : t \in Texts},
       ai \in {"absent", "set"}, loaded \in BOOLEAN :
        Started([DATABASE_URL |-> "absent",
                 AZURE_STORAGE_CONNECTION_STRING |-> "absent",
                 APPLICATIONINSIGHTS_CONNECTION_STRING |-> ai,
                 MAX_TASKS |-> max],
                "unreachable", "unreachable", loaded)

ListTasks ==
    /\ Idle
    /\ \E fail \in Failing({"trackMetric", "trackEvent"}) :
          Finish(Request("GET /api/tasks", <<>>, NoBody, NoFile, fail), GetTasks(fail))
    /\ Frame

ReadTask ==
    /\ Idle
    /\ \E id \in Texts \ {<<>>}, fail \in Failing({"trackEvent"}) :
          Finish(Request("GET /api/tasks/:id", id, NoBody, NoFile, fail),
                 GetTaskById(id, fail))
    /\ Frame

NextTasks ==
    \/ Close
    \/ ListTasks
    \/ ReadTask

SpecTasks == InitTasks /\ [][NextTasks]_vars

----------------------------------------------------------------------------
(* Properties of the database endpoints *)

DbEndpoints ==
    {"GET /api/db/tasks", "GET /api/db/tasks/:id", "POST /api/db/tasks",
     "PUT /api/db/tasks/:id", "DELETE /api/db/tasks/:id"}

Ids(tbl) == {r.id : r \in tbl}

\* C1: without DATABASE_URL every /api/db/tasks endpoint answers 503 with a
\* "not configured" error, whatever the id and body (a missing title too),
\* and no store operation is invoked.
C1_UnconfiguredAnswers503 ==
    (env.DATABASE_URL = "absent" /\ req.ep \in DbEndpoints) =>
        /\ resp.status = 503
        /\ resp.type = "json"
        /\ resp.body.error = "Database not configured"
        /\ calls = <<>>
        /\ tasks = {} /\ seq = 0

C1_Witness ==
    /\ env.DATABASE_URL = "absent"
    /\ req.ep = "PUT /api/db/tasks/:id"
    /\ ~Truthy(req.body.title)
    /\ resp.status = 503

\* C2: getById with the id returned by a create, right after that create,
\* returns the created record: the title sent, the description sent ('' when
\* omitted), completed = false, an id and both timestamps populated.
C2_CreateThenGetById ==
    (req.ep = "POST /api/db/tasks" /\ resp.status = 201) =>
        LET got == getTaskById(ToText(resp.body.task.id))
        IN  /\ got.ok /\ got.row # JsUndef
            /\ got.row = resp.body.task
            /\ got.row.title = req.body.title
            /\ got.row.description =
                 (IF req.body.description = JsUndef THEN JsStr("")
                  ELSE req.body.description)
            /\ got.row.completed = JsBool(FALSE)
            /\ got.row.id \in 1..seq
            /\ got.row.created_at \in 0..now
            /\ got.row.updated_at = got.row.created_at

C2_Witness ==
    /\ req.ep = "POST /api/db/tasks" /\ resp.status = 201
    /\ req.body.description = JsUndef
    /\ Cardinality(tasks) = 2

\* C3: a PUT with a valid title (non-empty, within the column width) on an id
\* no stored row has is answered 404 by a serving store, and leaves every
\* stored record as it was.
C3_UpdateOfMissingId ==
    [][(/\ req = NoRequest
        /\ req'.ep = "PUT /api/db/tasks/:id"
        /\ Truthy(req'.body.title) /\ TitleError(req'.body.title) = ""
        /\ Int4Valid(req'.id) /\ Int4In(req'.id) \notin Ids(tasks))
       => /\ tasks' = tasks
          /\ (dbService.isConfigured /\ Serving) => resp'.status = 404]_vars

C3_Witness ==
    /\ req.ep = "PUT /api/db/tasks/:id"
    /\ resp.status = 404
    /\ Int4In(req.id) \notin Ids(tasks)
    /\ tasks # {}

\* C4: once a delete of id i was answered 200, a later delete of i with no
\* create in between is answered 404 and leaves the store as it was.
C4_SecondDeleteNotFound ==
    [][(/\ req = NoRequest
        /\ req'.ep = "DELETE /api/db/tasks/:id"
        /\ Int4Valid(req'.id) /\ Int4In(req'.id) \in gone)
       => /\ resp'.status = 404
          /\ tasks' = tasks]_vars

C4_Witness ==
    /\ req.ep = "DELETE /api/db/tasks/:id"
    /\ Int4Valid(req.id) /\ Int4In(req.id) \in gone
    /\ resp.status = 404

NoDuplicates(s) == \A i, j \in 1..Len(s) : i # j => s[i] # s[j]

\* C10: no two stored tasks share an id, no id is issued twice (not even
\* after its task was deleted), and an update leaves the ids of the stored
\* records, and the id of the record it modifies, as they were.
C10_IdsUniqueAndStable ==
    /\ [](/\ \A r1, r2 \in tasks : r1.id = r2.id => r1 = r2
          /\ NoDuplicates(issued)
          /\ Ids(tasks) \subseteq {issued[i] : i \in 1..Len(issued)})
    /\ [][(req = NoRequest /\ req'.ep = "PUT /api/db/tasks/:id")
          => /\ Ids(tasks') = Ids(tasks)
             /\ \A r \in tasks' \ tasks :
                   /\ r.id = Int4In(req'.id)
                   /\ \E old \in tasks \ tasks' :
                         old.id = r.id /\ old.created_at = r.created_at
             /\ resp'.status = 200 => resp'.body.task.id = Int4In(req'.id)]_vars

C10_Witness ==
    /\ Len(issued) = 2
    /\ issued[1] \notin Ids(tasks)
    /\ issued[2] \in Ids(tasks)
    /\ req.ep = "PUT /api/db/tasks/:id" /\ resp.status = 200

----------------------------------------------------------------------------
(* Properties of uploads, the in-memory list, health and error handling *)

\* C5: an upload whose content type is outside the allow-list is answered
\* 400 and nothing is written to the blob store.
C5_DisallowedTypeAnswered400 ==
    (req.ep = "POST /api/upload" /\ req.file.present
        /\ req.file.mimetype \notin AllowedTypes) =>
        /\ resp.status = 400
        /\ \A i \in 1..Len(calls) : calls[i] # "uploadFile"

\* the MAX_TASKS text is an integer literal
IsLimit(text) == text.set /\ Int4Valid(text.v)

\* C6: GET /api/tasks returns the first min(L, 5) hardcoded records, at most
\* L of them, with total = the number returned and maxAllowed = L, for every
\* configured limit L; the limit is 10 when MAX_TASKS is unset.
C6_ListHonoursConfiguredLimit ==
    (req.ep = "GET /api/tasks" /\ resp.status = 200
        /\ (IsLimit(env.MAX_TASKS) \/ ~env.MAX_TASKS.set)) =>
        LET L == IF env.MAX_TASKS.set THEN Int4In(env.MAX_TASKS.v) ELSE 10
        IN  /\ Len(resp.body.tasks) <= L
            /\ resp.body.tasks = SubSeq(allTasks, 1, Min(L, 5))
            /\ resp.body.total = Len(resp.body.tasks)
            /\ resp.body.maxAllowed = L

HealthAnswered == req.ep = "GET /api/health" /\ resp.status = 200

\* C7 as stated: each health flag is 'enabled' exactly when its credential
\* was present at startup.
C7_FlagsIffCredentialPresent ==
    HealthAnswered =>
        /\ resp.body.database = "enabled" <=> env.DATABASE_URL # "absent"
        /\ resp.body.storage = "enabled" <=> env.AZURE_STORAGE_CONNECTION_STRING # "absent"
        /\ resp.body.monitoring = "enabled"
             <=> env.APPLICATIONINSIGHTS_CONNECTION_STRING # "absent"

\* C7 as amended: a flag is 'enabled' only if its credential was present;
\* database is 'enabled' exactly when DATABASE_URL was present, storage
\* exactly when its connection string was present and accepted by the client
\* constructor, monitoring exactly when the telemetry client was created.
C7_FlagsReflectInitialisedClients ==
    HealthAnswered =>
        /\ resp.body.database = "enabled" <=> env.DATABASE_URL # "absent"
        /\ resp.body.storage = "enabled" <=> env.AZURE_STORAGE_CONNECTION_STRING = "valid"
        /\ resp.body.monitoring = "enabled" <=> defaultClient
        /\ resp.body.monitoring = "enabled"
             => env.APPLICATIONINSIGHTS_CONNECTION_STRING # "absent"

C7_Witness ==
    /\ HealthAnswered
    /\ env.AZURE_STORAGE_CONNECTION_STRING = "malformed"
    /\ resp.body.storage = "disabled"
    /\ resp.body.database = "enabled"

ResponseOf(o) == [status |-> o.status, type |-> o.type, body |-> o.body]

\* the outcome of a database request r when the telemetry methods in fail throw
HandleDb(r, fail) ==
    CASE r.ep = "GET /api/db/tasks/:id" -> GetDbTaskById(r.id)
      [] r.ep = "POST /api/db/tasks" -> PostDbTask(r.body, fail)
      [] r.ep = "PUT /api/db/tasks/:id" -> PutDbTask(r.id, r.body, fail)
      [] r.ep = "DELETE /api/db/tasks/:id" -> DeleteDbTask(r.id, fail)

\* C8: a throwing telemetry call never changes the HTTP outcome: every
\* request is answered as it is when no telemetry call throws (a create,
\* update or delete that succeeded in the store with 201/200).
C8_TelemetryFailureNeverAltersOutcome ==
    [][(req = NoRequest /\ req'.ep \in DbEndpoints \ {"GET /api/db/tasks"})
       => resp' = ResponseOf(HandleDb(req', {}))]_vars

\* C9: every error of a request is answered with one JSON error body with an
\* error status, a blob-store failure with 500, 'error' and the underlying
\* message, and the process keeps running.
C9_ErrorsAnsweredAsJson ==
    req # NoRequest =>
        /\ alive
        /\ resp.type = "json"
        /\ resp.status \in {200, 201, 400, 404, 500, 503}
        /\ resp.status >= 400 => resp.body.error # ""
        /\ (calls # <<>> /\ calls[1] \in {"uploadFile", "listFiles"}
              /\ blobBackend # "valid")
             => /\ resp.status = 500
                /\ resp.body.message = "The specified container does not exist"

----------------------------------------------------------------------------
(* Properties of validation, replacement and overwriting *)

\* C11: with the database configured, a POST or PUT whose title is absent or
\* empty is answered 400 "Validation error" with no store call made and the
\* table and its sequence as they were, for a PUT also when no row has the id
\* (400, not 404) and whatever the state of the backend.
C11_MissingTitleAnswered400 ==
    [][(/\ req = NoRequest
        /\ req'.ep \in {"POST /api/db/tasks", "PUT /api/db/tasks/:id"}
        /\ dbService.isConfigured
        /\ req'.body.title \in {JsUndef, JsStr("")})
       => /\ resp'.status = 400
          /\ resp'.type = "json"
          /\ resp'.body.error = "Validation error"
          /\ calls' = <<>>
          /\ tasks' = tasks /\ seq' = seq]_vars

C11_Witness ==
    /\ req.ep = "PUT /api/db/tasks/:id"
    /\ req.body.title = JsStr("")
    /\ Int4Valid(req.id) /\ Int4In(req.id) \notin Ids(tasks)
    /\ tasks # {}
    /\ resp.status = 400

\* the names of the objects of the container
BlobNames(container) == {b.name : b \in container}

\* C12: every upload answered 200 stores its payload under a name no object
\* of the container had, overwrites nothing, and so adds exactly one object,
\* also when an upload of the same original name came at the same timestamp.
C12_UploadNeverOverwrites ==
    [][(/\ req = NoRequest
        /\ req'.ep = "POST /api/upload"
        /\ resp'.status = 200)
       => /\ resp'.body.file.fileName \notin BlobNames(blobs)
          /\ blobs \subseteq blobs'
          /\ Cardinality(blobs') = Cardinality(blobs) + 1]_vars

\* C13: an update answered 200 replaces the mutable fields of the row with
\* the id: its title is the title sent, its description the description sent
\* ('' when omitted or null), its completed the value sent (false when
\* omitted), whatever the row held before; its id and created_at stay, the
\* response carries the row, and every other row is as it was.
C13_UpdateReplacesAllFields ==
    [][(/\ req = NoRequest
        /\ req'.ep = "PUT /api/db/tasks/:id"
        /\ resp'.status = 200)
       => LET id == Int4In(req'.id)
              b == req'.body
          IN  /\ \E old \in tasks, new \in tasks' :
                    /\ old.id = id /\ new.id = id
                    /\ new.created_at = old.created_at
                    /\ new.title = b.title
                    /\ new.description =
                         (IF b.description \in {JsUndef, JsNull} THEN JsStr("")
                          ELSE b.description)
                    /\ new.completed =
                         (IF b.completed = JsUndef THEN JsBool(FALSE) ELSE b.completed)
                    /\ resp'.body.task = new
              /\ {r \in tasks' : r.id # id} = {r \in tasks : r.id # id}
              /\ Cardinality(tasks') = Cardinality(tasks)]_vars

C13_Witness ==
    /\ req.ep = "PUT /api/db/tasks/:id" /\ resp.status = 200
    /\ req.body.description = JsUndef /\ req.body.completed = JsUndef
    /\ resp.body.task.description = JsStr("")
    /\ resp.body.task.completed = JsBool(FALSE)
    /\ \E r \in tasks : r.id # resp.body.task.id /\ r.description = JsStr("d")
                          /\ r.completed = JsBool(TRUE)

----------------------------------------------------------------------------
(* Requests handled concurrently.  A handler runs without interruption to   *)
(* its await of the store call; the pool runs each statement on its own     *)
(* connection as one transaction, in any order (a statement that finds its  *)
(* row locked waits for the other to commit and then checks the row again); *)
(* the handler resumes with its own result and writes its response.         *)

\* a request in flight: the handler's position and the response it writes
Handling(r, pc, response) == [req |-> r, pc |-> pc, resp |-> response]

\* the bodies of concurrent updates: with a title, and with an empty one
ConcurrentBodies ==
    {[title |-> t, description |-> JsUndef, completed |-> JsBool(TRUE)]
        : t \in {JsStr("b"), JsStr("")}}

\* the ids the store has issued, as request parameters
IssuedParams == {ToText(n) : n \in 1..seq}

\* a task is created, before any concurrent request
SeedTask ==
    /\ Idle /\ inflight = <<>> /\ seq < MaxSeq
    /\ LET body == [title |-> JsStr("a"), description |-> JsStr("d"),
                    completed |-> JsUndef]
       IN  Finish(Request("POST /api/db/tasks", <<>>, body, NoFile, {}),
                  PostDbTask(body, {}))
    /\ Frame

\* a PUT or DELETE for the id of the requests in flight arrives: its handler
\* answers at once when it makes no store call, and otherwise awaits it
Arrive ==
    /\ Idle /\ Len(inflight) < MaxInflight
    /\ \E ep \in {"PUT /api/db/tasks/:id", "DELETE /api/db/tasks/:id"},
          id \in IssuedParams, body \in ConcurrentBodies \cup {NoBody},
          fail \in Failing({"trackEvent"}) :
          LET r == Request(ep, id, body, NoFile, fail)
              o == HandleDb(r, fail)
          IN  /\ (ep = "DELETE /api/db/tasks/:id") <=> (body = NoBody)
              /\ inflight # <<>> => id = inflight[1].req.id
              /\ inflight' = Append(inflight,
                                IF o.calls = <<>>
                                THEN Handling(r, "answered", ResponseOf(o))
                                ELSE Handling(r, "awaiting", NoResponse))
    /\ UNCHANGED <<env, dbBackend, blobBackend, dbService, storage, defaultClient,
                   initPending, tableExists, tasks, seq, issued, gone, now, blobs,
                   alive, req, calls, resp>>

\* the statement of one awaiting request runs against the table as it is now
RunStatement ==
    /\ alive
    /\ \E k \in 1..Len(inflight) :
          /\ inflight[k].pc = "awaiting"
          /\ LET r == inflight[k].req
                 o == HandleDb(r, r.fail)
             IN  /\ tasks' = o.tasks
                 /\ seq' = o.seq
                 /\ gone' = IF r.ep = "DELETE /api/db/tasks/:id" /\ o.status = 200
                            THEN gone \cup {o.body.task.id} ELSE gone
                 /\ inflight' = [inflight EXCEPT
                                    ![k] = Handling(r, "resolved", ResponseOf(o))]
    /\ UNCHANGED <<env, dbBackend, blobBackend, dbService, storage, defaultClient,
                   initPending, tableExists, issued, now, blobs, alive, req, calls,
                   resp>>

\* a resolved handler writes its response
Respond ==
    /\ alive
    /\ \E k \in 1..Len(inflight) :
          /\ inflight[k].pc = "resolved"
          /\ inflight' = [inflight EXCEPT ![k].pc = "answered"]
    /\ UNCHANGED <<env, dbBackend, blobBackend, dbService, storage, defaultClient,
                   initPending, tableExists, tasks, seq, issued, gone, now, blobs,
                   alive, req, calls, resp>>

NextConcurrent ==
    \/ InitializeTables
    \/ Close
    \/ SeedTask
    \/ Arrive
    \/ RunStatement
    \/ Respond

SpecConcurrent == Init /\ [][NextConcurrent]_vars

\* the requests in flight, by kind
Deletes == {k \in 1..Len(inflight) : inflight[k].req.ep = "DELETE /api/db/tasks/:id"}

Puts == {k \in 1..Len(inflight) : inflight[k].req.ep = "PUT /api/db/tasks/:id"}

\* the store call of request k has resolved
Resolved(k) == inflight[k].pc \in {"resolved", "answered"}

\* requests for one id a stored task had when the first of them arrived,
\* every PUT with a title, and no telemetry call throwing
ValidBatch ==
    /\ inflight # <<>>
    /\ \E n \in 1..Len(issued) : issued[n] = Int4In(inflight[1].req.id)
    /\ \A k \in 1..Len(inflight) :
          /\ inflight[k].req.id = inflight[1].req.id
          /\ inflight[k].req.fail = {}
          /\ k \in Puts => Truthy(inflight[k].req.body.title)

\* C14: of concurrent DELETE and PUT requests for the id of an existing task,
\* in any interleaving, at most one DELETE gets 200, with the deleted record,
\* and the first DELETE to run gets it; every other DELETE gets 404; a PUT
\* gets 200 if its statement ran while the task was stored and 404 if it ran
\* after the delete; when all are answered and a DELETE was among them,
\* exactly one DELETE got 200 and the task is absent from the store.
C14_ConcurrentDeleteAndPut ==
    /\ [](ValidBatch =>
            LET i == Int4In(inflight[1].req.id)
                won == {k \in Deletes : Resolved(k) /\ inflight[k].resp.status = 200}
            IN  /\ Cardinality(won) <= 1
                /\ \A k \in won : inflight[k].resp.body.task.id = i
                /\ \A k \in Deletes \cup Puts :
                      Resolved(k) => inflight[k].resp.status \in {200, 404}
                /\ (won # {}) <=> (i \notin Ids(tasks))
                /\ (\E k \in Deletes : Resolved(k)) => won # {}
                /\ (Deletes # {} /\ \A k \in 1..Len(inflight) :
                                        inflight[k].pc = "answered")
                     => Cardinality(won) = 1 /\ i \notin Ids(tasks))
    /\ [][\A k \in Puts :
            (/\ ValidBatch
             /\ Len(inflight') = Len(inflight)
             /\ inflight[k].pc = "awaiting" /\ inflight'[k].pc = "resolved")
            => /\ inflight'[k].resp.status =
                    (IF Int4In(inflight[k].req.id) \in Ids(tasks) THEN 200 ELSE 404)
               /\ inflight'[k].resp.status = 404 => tasks' = tasks]_vars

C14_Witness ==
    /\ ValidBatch
    /\ Len(inflight) = 3
    /\ \A k \in 1..3 : inflight[k].pc = "answered"
    /\ inflight[1].req.ep = "DELETE /api/db/tasks/:id" /\ inflight[1].resp.status = 404
    /\ inflight[2].req.ep = "DELETE /api/db/tasks/:id" /\ inflight[2].resp.status = 200
    /\ inflight[3].req.ep = "PUT /api/db/tasks/:id" /\ inflight[3].resp.status = 200
    /\ inflight[2].resp.body.task = inflight[3].resp.body.task

====
